---- MODULE Spec2Model ----
(***************************************************************************)
(* Model of the RT-STRUCT contour-to-mask conversion of mirp               *)
(* (src/mirp/importData/imageDicomFileRTSTRUCT.py).                        *)
(*                                                                         *)
(* Points are triples <<z, y, x>> of integers (world units).  A voxel      *)
(* coordinate is a rational: it is kept as an integer numerator over the   *)
(* spacing of its axis, so that "is an integer" and "is close to" are      *)
(* decided exactly as numpy decides them (np.isclose, np.allclose with     *)
(* their default tolerances).  Orientation matrices are 3x3 matrices       *)
(* <<row1, row2, row3>>; column i is the direction of voxel axis i.        *)
(***************************************************************************)
EXTENDS Integers, Sequences, FiniteSets, TLC

VARIABLES image, roi, pc, result, checks, temporary_image,
          self, disconnected_segments, roi_index, mask_list, warned,
          outcome, call

\* the state of the strategy decision and grid construction of one ROI
roi_vars == <<image, roi, pc, result, checks, temporary_image>>

\* the state of one to_object call: the structure-set object, the policy,
\* the position in the ROI contour sequences, the masks made so far,
\* whether a warning was emitted, and how the call ended
to_object_vars == <<self, disconnected_segments, roi_index, mask_list,
                    warned, outcome>>

vars == <<image, roi, pc, result, checks, temporary_image,
          self, disconnected_segments, roi_index, mask_list, warned,
          outcome, call>>

(***************************************************************************)
(* Bounds of the model.                                                    *)
(***************************************************************************)
\* the largest number of entries in one ROI contour sequence
MaxContours == 2

\* Python's None, for a UID
None == "None"

(***************************************************************************)
(* Arithmetic helpers.                                                     *)
(***************************************************************************)
Abs(x) == IF x < 0 THEN -x ELSE x

Min(S) == CHOOSE x \in S : \A y \in S : x <= y

Max(S) == CHOOSE x \in S : \A y \in S : y <= x

\* np.ceil(n / d) for d > 0
CeilDiv(n, d) == -((-n) \div d)

RECURSIVE SumSeq(_)
SumSeq(s) == IF s = <<>> THEN 0 ELSE Head(s) + SumSeq(Tail(s))

RECURSIVE Flatten(_)
Flatten(ss) == IF ss = <<>> THEN <<>> ELSE Head(ss) \o Flatten(Tail(ss))

\* numpy's default tolerances: atol = 1e-8 = AtolNum / TolDen,
\* rtol = 1e-5 = RtolNum / TolDen
TolDen == 100000000
AtolNum == 1
RtolNum == 1000

\* np.isclose(a / d, b / d): |a/d - b/d| <= atol + rtol * |b/d|
IsCloseQ(a, b, d) == Abs(a - b) * TolDen <= AtolNum * d + RtolNum * Abs(b)

\* np.round(n / d) for d > 0 (round half to even)
RoundQ(n, d) ==
    LET q == n \div d
        r == n % d
    IN IF 2 * r < d THEN q
       ELSE IF 2 * r > d THEN q + 1
       ELSE IF q % 2 = 0 THEN q ELSE q + 1

(***************************************************************************)
(* Coordinate transformer: voxel = orientation^-1 . (point - origin) /     *)
(* spacing.  The orientation is orthonormal, so its inverse is its         *)
(* transpose.  ToVoxelNum gives the numerators; the denominator of axis i  *)
(* is spacing[i].                                                          *)
(***************************************************************************)
Identity3 == <<<<1, 0, 0>>, <<0, 1, 0>>, <<0, 0, 1>>>>

ToVoxelNum(p, origin, orientation) ==
    [i \in 1..3 |->
        orientation[1][i] * (p[1] - origin[1])
      + orientation[2][i] * (p[2] - origin[2])
      + orientation[3][i] * (p[3] - origin[3])]

(***************************************************************************)
(* _collect_contours: the closed-planar entries that carry contour data,   *)
(* in input order.  Each kept entry becomes a contour object with one      *)
(* sub-contour (its point list, the offset of the entry subtracted).  The  *)
(* empty sequence stands for the None the code returns when nothing is     *)
(* kept.                                                                   *)
(***************************************************************************)
IsUsableContour(c) == c.gtype = "CLOSED_PLANAR" /\ c.pts # <<>>

\* the contour offset vector (3006, 0045) of an entry; an entry without
\* the tag has no offset field and gets the default [0.0, 0.0, 0.0]
ContourOffset(c) == IF "offset" \in DOMAIN c THEN c.offset ELSE <<0, 0, 0>>

\* faulty variant: the offset vector is not removed from the contour data
CollectContoursNoOffset(roi_contour_sequence) ==
    LET kept == SelectSeq(roi_contour_sequence, IsUsableContour)
    IN [i \in 1..Len(kept) |-> kept[i].pts]

CollectContours(roi_contour_sequence) ==
    LET kept == SelectSeq(roi_contour_sequence, IsUsableContour)
    IN [i \in 1..Len(kept) |->
           [j \in 1..Len(kept[i].pts) |->
               [k \in 1..3 |-> kept[i].pts[j][k] - ContourOffset(kept[i])[k]]]]

(***************************************************************************)
(* _convert_contour_using_image                                            *)
(***************************************************************************)
\* series_uid_correct (lines 265-272)
SeriesUidCorrect(mask_series_uid, img) ==
    IF img.series_instance_uid # None
    THEN mask_series_uid = img.series_instance_uid
    ELSE FALSE

\* the pooled list of referenced SOP instance UIDs, None entries removed
\* (lines 283-311)
ReferencedSopUids(r) ==
    LET pooled == Flatten([i \in 1..Len(r.contours) |-> r.contours[i].refs])
                  \o r.for_refs
    IN SelectSeq(pooled, LAMBDA u : u # None)

Range(s) == {s[i] : i \in 1..Len(s)}

\* sop_uid_correct (lines 281-313); an image without SOP instance UID has
\* sop_instance_uid = <<>>
SopUidCorrect(r, img) ==
    IF img.sop_instance_uid # <<>>
    THEN LET referenced_sop_uids == ReferencedSopUids(r)
         IN IF Len(referenced_sop_uids) > 1
            THEN Range(referenced_sop_uids) \subseteq Range(img.sop_instance_uid)
            ELSE FALSE
    ELSE FALSE

\* contour.to_voxel_coordinates(image = image): the first (slice) voxel
\* coordinate of every point of every contour, as numerators over
\* image.image_spacing[1] (line 321)
SliceNums(contour_objects, img) ==
    [i \in 1..Len(contour_objects) |->
        [j \in 1..Len(contour_objects[i]) |->
            ToVoxelNum(contour_objects[i][j], img.image_origin,
                       img.image_orientation)[1]]]

\* slice_position = sub_contour[0, 0] (line 330)
SlicePosition(nums) == nums[1]

\* np.allclose(sub_contour[:, 0], slice_position) for every sub-contour
\* (lines 327-332)
OrientationCorrect(contour_objects, img) ==
    LET z == SliceNums(contour_objects, img)
    IN \A i \in 1..Len(z) : \A j \in 1..Len(z[i]) :
          IsCloseQ(z[i][j], SlicePosition(z[i]), img.image_spacing[1])

\* np.isclose(np.round(slice_position), slice_position) for every
\* sub-contour (lines 327-334)
PositionCorrect(contour_objects, img) ==
    LET z == SliceNums(contour_objects, img)
        d == img.image_spacing[1]
    IN \A i \in 1..Len(z) :
          IsCloseQ(RoundQ(SlicePosition(z[i]), d) * d, SlicePosition(z[i]), d)

\* np.unique of the slice positions (lines 343-344), as numerators
UniqueSlicePositions(contour_objects, img) ==
    LET z == SliceNums(contour_objects, img)
    IN {SlicePosition(z[i]) : i \in 1..Len(z)}

\* np.min(np.diff(s)) of a sorted set s of at least two values
MinDiff(S) ==
    Min({b - a : <<a, b>> \in
            {ab \in S \X S : /\ ab[1] < ab[2]
                             /\ ~\E c \in S : ab[1] < c /\ c < ab[2]}})

\* np.isclose(np.min(np.diff(slice_position)), 1.0) (line 351)
SlicesAdjacent(slice_position, d) == IsCloseQ(MinDiff(slice_position), d, d)

\* faulty variant: the series UID no longer confirms non-adjacent slices
MultiSliceDecisionNoSeries(slice_position, d, sop_uid_correct, series_uid_correct) ==
    IF ~SlicesAdjacent(slice_position, d) /\ ~sop_uid_correct
    THEN <<FALSE, TRUE, FALSE>>
    ELSE <<TRUE, TRUE, TRUE>>

\* lines 350-354
MultiSliceDecision(slice_position, d, sop_uid_correct, series_uid_correct) ==
    IF ~SlicesAdjacent(slice_position, d) /\ ~sop_uid_correct /\ ~series_uid_correct
    THEN <<FALSE, TRUE, FALSE>>
    ELSE <<TRUE, TRUE, TRUE>>

\* faulty variant: no single-slice shortcut, a single slice is confirmed by UID
SliceDecisionNoShortcut(slice_position, d, sop_uid_correct, series_uid_correct) ==
    IF ~sop_uid_correct /\ ~series_uid_correct
       /\ (Cardinality(slice_position) = 1 \/ ~SlicesAdjacent(slice_position, d))
    THEN <<FALSE, TRUE, FALSE>>
    ELSE <<TRUE, TRUE, TRUE>>

\* lines 346-354
SliceDecision(slice_position, d, sop_uid_correct, series_uid_correct) ==
    IF Cardinality(slice_position) = 1
    THEN <<TRUE, TRUE, TRUE>>
    ELSE MultiSliceDecision(slice_position, d, sop_uid_correct, series_uid_correct)

\* lines 336-339; later is the outcome of lines 341-354
GeometryDecision(orientation_correct, position_correct, later) ==
    IF ~orientation_correct THEN <<FALSE, orientation_correct, position_correct>>
    ELSE IF ~position_correct THEN <<FALSE, orientation_correct, position_correct>>
    ELSE later

\* faulty variant: a matching UID overrides a failed geometric check
ConvertContourUsingImageUidOverrides(r, img) ==
    LET series_uid_correct == SeriesUidCorrect(r.series_instance_uid, img)
        sop_uid_correct == SopUidCorrect(r, img)
        contour_objects == CollectContours(r.contours)
    IN IF contour_objects = <<>> \/ sop_uid_correct \/ series_uid_correct
       THEN <<TRUE, TRUE, TRUE>>
       ELSE GeometryDecision(
                OrientationCorrect(contour_objects, img),
                PositionCorrect(contour_objects, img),
                SliceDecision(UniqueSlicePositions(contour_objects, img),
                              img.image_spacing[1],
                              sop_uid_correct, series_uid_correct))

\* the whole of _convert_contour_using_image for an existing image
\* (lines 265-354)
ConvertContourUsingImage(r, img) ==
    LET series_uid_correct == SeriesUidCorrect(r.series_instance_uid, img)
        sop_uid_correct == SopUidCorrect(r, img)
        contour_objects == CollectContours(r.contours)
    IN IF contour_objects = <<>>
       THEN <<TRUE, TRUE, TRUE>>
       ELSE GeometryDecision(
                OrientationCorrect(contour_objects, img),
                PositionCorrect(contour_objects, img),
                SliceDecision(UniqueSlicePositions(contour_objects, img),
                              img.image_spacing[1],
                              sop_uid_correct, series_uid_correct))

(***************************************************************************)
(* _create_image_from_contour                                              *)
(***************************************************************************)
\* the orders in which the three coordinate axes can be taken
Perms3 == {g \in [1..3 -> 1..3] : \A a, b \in 1..3 : g[a] = g[b] => a = b}

Signs3 == [1..3 -> {-1, 1}]

\* the orthonormal matrix whose column j is s[j] times the unit vector of
\* axis f[j]
SignedPerm(f, s) == [k \in 1..3 |-> [j \in 1..3 |-> IF f[j] = k THEN s[j] ELSE 0]]

\* Len(points) times the scatter matrix A . A^T of the mean-centred point
\* cloud A = points.T - np.mean(points.T, axis=1, keepdims=True)
Scatter(points) ==
    LET n == Len(points)
        S1 == [i \in 1..3 |-> SumSeq([q \in 1..n |-> points[q][i]])]
    IN [i \in 1..3 |-> [j \in 1..3 |->
           n * SumSeq([q \in 1..n |-> points[q][i] * points[q][j]])
           - S1[i] * S1[j]]]

\* the unit vectors of the axes f[1], f[2], f[3] are left singular vectors
\* of a point cloud of scatter matrix S, by decreasing singular value
IsLeftSingular(S, f) ==
    /\ \A i, j \in 1..3 : i # j => S[i][j] = 0
    /\ S[f[1]][f[1]] >= S[f[2]][f[2]]
    /\ S[f[2]][f[2]] >= S[f[3]][f[3]]

\* np.linalg.svd(...).U (line 374): the sign of each singular vector, and
\* the order of vectors of equal singular value, are the library's choice
SvdU(points) ==
    UNION {{SignedPerm(f, s) : f \in {g \in Perms3 : IsLeftSingular(S, g)}, s \in Signs3} :
              S \in {Scatter(points)}}

\* points (line 373): the sub-contours of the first contour object
OrientationPoints(contour_objects) == contour_objects[1]

\* svd.U[:, (2, 1, 0)] (line 377)
ReverseColumns(U) == [k \in 1..3 |-> <<U[k][3], U[k][2], U[k][1]>>]

Det3(M) ==
      M[1][1] * (M[2][2] * M[3][3] - M[2][3] * M[3][2])
    - M[1][2] * (M[2][1] * M[3][3] - M[2][3] * M[3][1])
    + M[1][3] * (M[2][1] * M[3][2] - M[2][2] * M[3][1])

ColumnSum(M, i) == M[1][i] + M[2][i] + M[3][i]

\* lines 379-383
CheckRightHanded(M) ==
    IF Det3(M) = -1
    THEN [k \in 1..3 |-> [i \in 1..3 |->
            IF ColumnSum(M, i) < 0 THEN -M[k][i] ELSE M[k][i]]]
    ELSE M

\* mask_orientation (lines 377-383)
MaskOrientation(U) == CheckRightHanded(ReverseColumns(U))

\* contours (lines 390-399): every point of every contour in the normalised
\* space (zero origin, unit spacing, mask orientation)
Projected(contour_objects, mask_orientation) ==
    LET points == Flatten(contour_objects)
    IN {ToVoxelNum(points[q], <<0, 0, 0>>, mask_orientation) :
            q \in 1..Len(points)}

Coordinates(projected, i) == {p[i] : p \in projected}

\* line 402 raises ValueError (np.min of an empty array) when the
\* projected points have a single slice-axis value
SpacingUndefined(projected) == Cardinality(Coordinates(projected, 1)) < 2

\* lines 401-405
MaskSpacing(projected, img) ==
    <<MinDiff(Coordinates(projected, 1)), img.image_spacing[2], img.image_spacing[3]>>

\* faulty variant: no padding of the in-plane origin
MaskOriginNoPadding(projected, mask_spacing) ==
    <<Min(Coordinates(projected, 1)),
      Min(Coordinates(projected, 2)),
      Min(Coordinates(projected, 3))>>

\* lines 407-411
MaskOrigin(projected, mask_spacing) ==
    <<Min(Coordinates(projected, 1)),
      Min(Coordinates(projected, 2)) - mask_spacing[2],
      Min(Coordinates(projected, 3)) - mask_spacing[3]>>

\* lines 413-417
MaskDimension(projected, mask_origin, mask_spacing) ==
    <<CeilDiv(Max(Coordinates(projected, 1)) - mask_origin[1], mask_spacing[1]),
      CeilDiv(Max(Coordinates(projected, 2)) - mask_origin[2], mask_spacing[2]) + 1,
      CeilDiv(Max(Coordinates(projected, 3)) - mask_origin[3], mask_spacing[3]) + 1>>

\* the copy of the image returned when use_position is false, from the
\* projected contour points (lines 401-417, 424-430)
FullSyntheticGrid(projected, img, mask_orientation) ==
    LET mask_spacing == MaskSpacing(projected, img)
        mask_origin == MaskOrigin(projected, mask_spacing)
    IN [img EXCEPT !.image_spacing = mask_spacing,
                   !.image_origin = mask_origin,
                   !.image_dimension =
                       MaskDimension(projected, mask_origin, mask_spacing),
                   !.image_orientation = mask_orientation]

\* use_position, as to_object passes it on (lines 166, 177)
UsePosition(res) == res[3]

\* faulty variant: mixed mode keeps the orientation of the template
MixedGridTemplateOrientation(img, mask_orientation) == img

\* the copy of the image returned when use_position is true
\* (lines 419-430)
MixedGrid(img, mask_orientation) ==
    [img EXCEPT !.image_orientation = mask_orientation]

(***************************************************************************)
(* The inputs of to_object: a reference image and the ROI contour sequence *)
(* of a structure set.                                                     *)
(***************************************************************************)
\* a closed contour in the plane z = z0: the corners of a rectangle
AxialContour(z0, y0, y1, x0, x1) ==
    <<<<z0, y0, x0>>, <<z0, y0, x1>>, <<z0, y1, x1>>, <<z0, y1, x0>>>>

\* a closed contour in the plane x = x0, starting at z = z0
SagittalContour(x0, z0, z1, y0, y1) ==
    <<<<z0, y0, x0>>, <<z1, y0, x0>>, <<z1, y1, x0>>, <<z0, y1, x0>>>>

ClosedPlanar(points) == [gtype |-> "CLOSED_PLANAR", pts |-> points]

\* the world z positions of the axial contours
AxialPositions == <<0, 1, 2, 5>>

\* the entries a contour sequence is made of, without their image
\* references: axial contours wider along x, one wider along y, two
\* sagittal contours and an entry that is no closed planar contour
ContourCatalogue ==
    [i \in 1..Len(AxialPositions) |->
        ClosedPlanar(AxialContour(AxialPositions[i], 1, 2, 0, 3))]
    \o <<ClosedPlanar(AxialContour(1, 0, 3, 1, 2)),
         ClosedPlanar(SagittalContour(1, 0, 2, 0, 1)),
         ClosedPlanar(SagittalContour(1, 1, 3, 0, 1)),
         [gtype |-> "POINT", pts |-> <<<<0, 0, 0>>>>]>>

\* contour sequences of up to MaxContours entries.  The first entry feeds
\* the orientation estimate (line 373); the order of the entries after it
\* matters to no operation modelled here, so they are taken in catalogue
\* order.
ContourSequences ==
    {[i \in 1..Len(ix) |-> ContourCatalogue[ix[i]]] :
        ix \in UNION {{f \in [1..n -> 1..Len(ContourCatalogue)] :
                          \A i \in 2..(n - 1) : f[i] <= f[i + 1]} :
                      n \in 1..MaxContours}}

\* how the entries of a contour sequence and the referenced frame of
\* reference sequence refer to image slices
RefPatterns == {"none", "all", "frame"}

ContourRefs(pattern, i) ==
    IF pattern = "all" THEN <<"u1">> ELSE <<>>

FrameRefs(pattern) ==
    IF pattern = "frame" THEN <<"u1", None, "u2">> ELSE <<>>

Rois ==
    {[series_instance_uid |-> "s1",
      contours |-> [i \in 1..Len(cs) |->
                      [gtype |-> cs[i].gtype, pts |-> cs[i].pts,
                       refs |-> ContourRefs(pattern, i)]],
      for_refs |-> FrameRefs(pattern)] :
        cs \in ContourSequences,
        pattern \in RefPatterns}

\* series instance UID and SOP instance UIDs of the reference image: a
\* generic image has neither, a DICOM file has one SOP instance UID, a
\* DICOM stack has one per slice
ImageUids ==
    {<<None, <<>>>>, <<"s1", <<"u1">>>>, <<"s2", <<"u1", "u2">>>>}

ImageSpacings == {<<2, 2, 1>>, <<1, 1, 2>>}

Images ==
    {[series_instance_uid |-> uid[1],
      sop_instance_uid |-> uid[2],
      image_origin |-> <<0, 0, 0>>,
      image_spacing |-> sp,
      image_dimension |-> <<6, 6, 6>>,
      image_orientation |-> Identity3] :
        uid \in ImageUids, sp \in ImageSpacings}

NoResult == <<>>

\* a structure-set object that is not part of the run
NoObject == [roi_name |-> [kind |-> "none"], file |-> <<>>, metadata_loaded |-> FALSE]

\* how a call ended: still running, returned a value, or raised an error
Running == [kind |-> "running"]

Returned(value) == [kind |-> "returned", value |-> value]

Raised(error) == [kind |-> "raised", error |-> error]

\* no helper is being called
NoCall == [op |-> "none"]

NoChecks == [series_uid_correct |-> FALSE, sop_uid_correct |-> FALSE,
             orientation_correct |-> FALSE, position_correct |-> FALSE]

NoImage == [series_instance_uid |-> None, sop_instance_uid |-> <<>>,
            image_origin |-> <<>>, image_spacing |-> <<>>,
            image_dimension |-> <<>>, image_orientation |-> <<>>]

Init ==
    /\ image \in Images
    /\ roi \in Rois
    /\ pc = "start"
    /\ result = NoResult
    /\ checks = NoChecks
    /\ temporary_image = NoImage
    /\ self = NoObject
    /\ disconnected_segments = "keep_as_is"
    /\ roi_index = 0
    /\ mask_list = <<>>
    /\ warned = FALSE
    /\ outcome = Running
    /\ call = NoCall

(***************************************************************************)
(* to_object, for one ROI contour sequence.                                *)
(***************************************************************************)
\* lines 165-169: the strategy decision, with the outcome of each check
DecideStrategy ==
    /\ pc = "start"
    /\ result' = ConvertContourUsingImage(roi, image)
    /\ checks' =
         LET contour_objects == CollectContours(roi.contours)
         IN [series_uid_correct |-> SeriesUidCorrect(roi.series_instance_uid, image),
             sop_uid_correct |-> SopUidCorrect(roi, image),
             orientation_correct |->
                 contour_objects = <<>> \/ OrientationCorrect(contour_objects, image),
             position_correct |->
                 contour_objects = <<>> \/ PositionCorrect(contour_objects, image)]
    /\ pc' = "decided"
    /\ UNCHANGED <<image, roi, temporary_image>>
    /\ UNCHANGED <<to_object_vars, call>>

\* line 364, ImageFile.copy: an image object of its own with the same
\* descriptor
Copy(img) == img

\* a variant that writes the grid to the image passed in, without line 364
CreateImageFromContourInPlace ==
    /\ pc = "decided"
    /\ ~result[1]
    /\ \E contour_objects \in {CollectContours(roi.contours)} :
       \E U \in SvdU(OrientationPoints(contour_objects)) :
       \E mask_orientation \in {MaskOrientation(U)} :
          IF UsePosition(result)
          THEN /\ temporary_image' = MixedGrid(image, mask_orientation)
               /\ image' = temporary_image'
               /\ pc' = "created"
          ELSE \E projected \in {Projected(contour_objects, mask_orientation)} :
               IF SpacingUndefined(projected)
               THEN /\ temporary_image' = NoImage
                    /\ image' = image
                    /\ pc' = "raised"
               ELSE /\ temporary_image' =
                         FullSyntheticGrid(projected, image, mask_orientation)
                    /\ image' = temporary_image'
                    /\ pc' = "created"
    /\ UNCHANGED <<roi, result, checks>>
    /\ UNCHANGED <<to_object_vars, call>>

\* lines 171-178: _create_image_from_contour on a copy of the image; the
\* ValueError of line 402 leaves to_object
CreateImageFromContour ==
    /\ pc = "decided"
    /\ ~result[1]
    /\ \E contour_objects \in {CollectContours(roi.contours)} :
       \E U \in SvdU(OrientationPoints(contour_objects)) :
       \E mask_orientation \in {MaskOrientation(U)} :
          IF UsePosition(result)
          THEN /\ temporary_image' = MixedGrid(Copy(image), mask_orientation)
               /\ pc' = "created"
          ELSE \E projected \in {Projected(contour_objects, mask_orientation)} :
               IF SpacingUndefined(projected)
               THEN /\ temporary_image' = NoImage
                    /\ pc' = "raised"
               ELSE /\ temporary_image' =
                         FullSyntheticGrid(projected, Copy(image), mask_orientation)
                    /\ pc' = "created"
    /\ UNCHANGED <<image, roi, result, checks>>
    /\ UNCHANGED <<to_object_vars, call>>

\* lines 185-191: the associated image is used directly
UseImageDirectly ==
    /\ pc = "decided"
    /\ result[1]
    /\ pc' = "direct"
    /\ UNCHANGED <<image, roi, result, checks, temporary_image>>
    /\ UNCHANGED <<to_object_vars, call>>

Next == DecideStrategy \/ CreateImageFromContour \/ UseImageDirectly

Spec == Init /\ [][Next]_vars

(***************************************************************************)
(* _match_slice_position.  Positions are integers in units of 1 /          *)
(* MilliDen of 0.001, so that np.around(x, 3) is RoundQ(x, MilliDen).  A   *)
(* returned index is held in a one-element sequence; the empty sequence    *)
(* stands for None.  int() of an np.argwhere result with more than one row *)
(* is a TypeError.                                                         *)
(***************************************************************************)
MilliDen == 10

MatchSlicePosition(slice_position, known_position, image_spacing_z) ==
    LET img_slice_position == slice_position * image_spacing_z
        position_difference ==
            [i \in 1..Len(known_position) |->
                RoundQ(Abs(img_slice_position - known_position[i]), MilliDen)]
        matching == {i \in 1..Len(known_position) : position_difference[i] = 0}
    IN IF matching # {}
       THEN IF Cardinality(matching) = 1
            THEN Returned(<<(CHOOSE i \in matching : TRUE) - 1>>)
            ELSE Raised("TypeError")
       ELSE Returned(<<>>)

(***************************************************************************)
(* _merge_contours.  slice_ids[ii] is the result of which_slice() of       *)
(* contour object ii (1-based here).  Each element of the result is one    *)
(* call parent_contour.merge(other_contours, slice_id): the index of the   *)
(* parent, the indices of the merging contours in the order they were      *)
(* appended (<<>> when merging_contours stayed None) and the slice id.     *)
(***************************************************************************)
RECURSIVE SortedSeq(_)
SortedSeq(S) == IF S = {} THEN <<>> ELSE <<Min(S)>> \o SortedSeq(S \ {Min(S)})

UniqueSliceIds(slice_ids) ==
    SortedSeq(UNION {Range(slice_ids[ii]) : ii \in 1..Len(slice_ids)})

\* faulty variant: each further contour of a slice replaces the list of
\* merging contours instead of being appended to it
MergeCallKeepsLast(slice_ids, slice_id) ==
    LET occupying == SelectSeq([ii \in 1..Len(slice_ids) |-> ii],
                               LAMBDA ii : slice_id \in Range(slice_ids[ii]))
    IN [parent_contour |-> Head(occupying),
        merging_contours |-> IF Len(occupying) > 2
                             THEN <<occupying[Len(occupying)]>>
                             ELSE Tail(occupying),
        slice_id |-> slice_id]

MergeCall(slice_ids, slice_id) ==
    LET occupying == SelectSeq([ii \in 1..Len(slice_ids) |-> ii],
                               LAMBDA ii : slice_id \in Range(slice_ids[ii]))
    IN [parent_contour |-> Head(occupying),
        merging_contours |-> Tail(occupying),
        slice_id |-> slice_id]

MergeContours(slice_ids) ==
    LET unique_slice_ids == UniqueSliceIds(slice_ids)
    IN [n \in 1..Len(unique_slice_ids) |-> MergeCall(slice_ids, unique_slice_ids[n])]

(***************************************************************************)
(* convert_contour_to_mask.  A boolean 2D grid is the set of its true      *)
(* cells <<y, x>>, a boolean volume the set of its true voxels             *)
(* <<z, y, x>>.                                                            *)
(*                                                                         *)
(* The contour class is outside this file: what its methods yield for an   *)
(* entry of the contour sequence on the grid in use travels with the       *)
(* entry, in the field raster: slice_id is the slice the contour lies in   *)
(* (which_slice, and the slice position that ray casting reports) and      *)
(* mask is the filled polygon of the contour.  Ray casting a merged        *)
(* contour follows the even-odd rule over all its polygons.                *)
(***************************************************************************)
\* a call that returned None
ReturnedNone == [kind |-> "none"]

\* position units per world unit (mm)
Millimetre == 1000 * MilliDen

\* image.get_slice_position(): the world positions of the slices, in order
GetSlicePosition(img) ==
    [k \in 1..img.image_dimension[1] |->
        (img.image_origin[1] + (k - 1) * img.image_spacing[1]) * Millimetre]

\* contour.to_voxel_coordinates(image) of every collected contour object
ToVoxelCoordinates(roi_contour_sequence) ==
    LET kept == SelectSeq(roi_contour_sequence, IsUsableContour)
    IN [i \in 1..Len(kept) |-> kept[i].raster]

SymDiff(A, B) == (A \ B) \cup (B \ A)

RECURSIVE EvenOdd(_)
EvenOdd(masks) ==
    IF masks = <<>> THEN {} ELSE SymDiff(Head(masks), EvenOdd(Tail(masks)))

\* contour.contour_to_grid_ray_cast(image) of one merged contour: the
\* slice position and the grid of the slice
RayCast(contour_objects, merged) ==
    [slice_list |-> <<merged.slice_id>>,
     mask_list |->
        <<EvenOdd(<<contour_objects[merged.parent_contour].mask>>
                  \o [n \in 1..Len(merged.merging_contours) |->
                         contour_objects[merged.merging_contours[n]].mask])>>]

\* the elements of seq at the indices ii (1-based) for which keep[ii]
SelectByIndex(seq, keep) ==
    LET idx == SelectSeq([ii \in 1..Len(seq) |-> ii], LAMBDA ii : keep[ii])
    IN [n \in 1..Len(idx) |-> seq[idx[n]]]

\* skimage.measure.label(..., connectivity=2)
Connectivity == 2

\* neighbours under that connectivity: at most one step along each axis and
\* at most Connectivity steps in all
Adjacent(a, b) ==
    /\ a # b
    /\ \A i \in 1..3 : Abs(a[i] - b[i]) <= 1
    /\ Abs(a[1] - b[1]) + Abs(a[2] - b[2]) + Abs(a[3] - b[3]) <= Connectivity

\* raster (C) order of voxels
RasterBefore(a, b) ==
    \/ a[1] < b[1]
    \/ a[1] = b[1] /\ a[2] < b[2]
    \/ a[1] = b[1] /\ a[2] = b[2] /\ a[3] < b[3]

RECURSIVE Region(_, _)
Region(seed, roi_mask) ==
    LET grown == seed \cup {v \in roi_mask : \E u \in seed : Adjacent(u, v)}
    IN IF grown = seed THEN seed ELSE Region(grown, roi_mask)

\* the labelled regions: region n has label n; labels are given in raster
\* order of the first voxel of each region
RECURSIVE LabelRegions(_)
LabelRegions(roi_mask) ==
    IF roi_mask = {} THEN <<>>
    ELSE LET first == CHOOSE v \in roi_mask :
                          \A u \in roi_mask : u = v \/ RasterBefore(v, u)
             region == Region({first}, roi_mask)
         IN <<region>> \o LabelRegions(roi_mask \ region)

\* faulty variant: the last label of maximal size
ArgMaxLast(roi_sizes) ==
    CHOOSE n \in 1..Len(roi_sizes) :
        /\ \A m \in 1..Len(roi_sizes) : roi_sizes[m] <= roi_sizes[n]
        /\ \A m \in (n + 1)..Len(roi_sizes) : roi_sizes[m] < roi_sizes[n]

\* np.argmax(roi_sizes) + 1: the first label of maximal size
ArgMax(roi_sizes) ==
    CHOOSE n \in 1..Len(roi_sizes) :
        /\ \A m \in 1..Len(roi_sizes) : roi_sizes[m] <= roi_sizes[n]
        /\ \A m \in 1..(n - 1) : roi_sizes[m] < roi_sizes[n]

\* lines 523-536; np.argmax of an empty array is a ValueError
KeepLargest(roi_mask) ==
    LET regions == LabelRegions(roi_mask)
        roi_sizes == [n \in 1..Len(regions) |-> Cardinality(regions[n])]
    IN IF Len(regions) = 0
       THEN Raised("ValueError")
       ELSE Returned(regions[ArgMax(roi_sizes)])

\* lines 483-491: each slice position matched to a slice of the image
MatchedSlices(contour_slice_list, img) ==
    [n \in 1..Len(contour_slice_list) |->
        MatchSlicePosition(contour_slice_list[n], GetSlicePosition(img),
                           img.image_spacing[1] * Millimetre)]

\* a variant of lines 493-499 that leaves mask_list as it is
FilterUnmatchedKeepsMasks(matched, contour_mask_list) ==
    LET is_matched == [ii \in 1..Len(matched) |-> matched[ii].value # <<>>]
        kept == SelectByIndex(matched, is_matched)
    IN [mask_list |-> contour_mask_list,
        slice_list |-> [n \in 1..Len(kept) |-> kept[n].value[1]]]

\* lines 493-499: the masks and slice indices of the slices that were
\* matched
FilterUnmatched(matched, contour_mask_list) ==
    LET is_matched == [ii \in 1..Len(matched) |-> matched[ii].value # <<>>]
        kept == SelectByIndex(matched, is_matched)
    IN [mask_list |-> SelectByIndex(contour_mask_list, is_matched),
        slice_list |-> [n \in 1..Len(kept) |-> kept[n].value[1]]]

\* lines 504-505: without the negative slice indices
FilterNegative(lists) ==
    [mask_list |-> SelectByIndex(lists.mask_list,
                       [ii \in 1..Len(lists.mask_list) |-> lists.slice_list[ii] >= 0]),
     slice_list |-> SelectSeq(lists.slice_list, LAMBDA slice_id : slice_id >= 0)]

\* lines 511-512: without the slice indices beyond the out-of-plane
\* dimension
FilterBeyond(lists, img) ==
    [mask_list |-> SelectByIndex(lists.mask_list,
                       [ii \in 1..Len(lists.mask_list) |->
                           Abs(lists.slice_list[ii]) < img.image_dimension[1]]),
     slice_list |-> SelectSeq(lists.slice_list,
                       LAMBDA slice_id : slice_id < img.image_dimension[1])]

\* lines 518-521: each mask is or-ed into its slice of the volume
AssembledSlices(lists) ==
    UNION {{<<lists.slice_list[ii], c[1], c[2]>> : c \in lists.mask_list[ii]} :
              ii \in 1..Len(lists.slice_list)}

\* lines 479-538, from the rasterised slices on
AssembleMask(contour_slice_list, contour_mask_list, img, policy) ==
    LET matched == MatchedSlices(contour_slice_list, img)
        lists_1 == FilterUnmatched(matched, contour_mask_list)
        lists_2 == FilterNegative(lists_1)
        lists_3 == FilterBeyond(lists_2, img)
        roi_mask == AssembledSlices(lists_3)
    IN IF Len(contour_slice_list) = 0 THEN ReturnedNone
       ELSE IF \E n \in 1..Len(matched) : matched[n].kind = "raised"
       THEN Raised("TypeError")
       ELSE IF Len(lists_1.slice_list) = 0 THEN ReturnedNone
       ELSE IF Len(lists_2.slice_list) = 0 THEN ReturnedNone
       ELSE IF Len(lists_3.slice_list) = 0 THEN ReturnedNone
       ELSE IF policy = "keep_largest" THEN KeepLargest(roi_mask)
       ELSE Returned(roi_mask)

\* lines 452-477: the slice positions and the masks the merged contours
\* are rasterised to
RasterisedSlices(roi_contour_sequence) ==
    LET contour_objects == ToVoxelCoordinates(roi_contour_sequence)
        merged == MergeContours([i \in 1..Len(contour_objects) |->
                                    <<contour_objects[i].slice_id>>])
        cast == [n \in 1..Len(merged) |-> RayCast(contour_objects, merged[n])]
    IN [slice_list |-> Flatten([n \in 1..Len(cast) |-> cast[n].slice_list]),
        mask_list |-> Flatten([n \in 1..Len(cast) |-> cast[n].mask_list])]

\* lines 432-538
ConvertContourToMask(roi_contour_sequence, img, draw_method, policy) ==
    IF img = NoImage THEN ReturnedNone
    ELSE IF CollectContours(roi_contour_sequence) = <<>> THEN ReturnedNone
    ELSE LET rasterised == RasterisedSlices(roi_contour_sequence)
         IN IF Len(rasterised.slice_list) > 0 /\ draw_method # "ray_cast"
            THEN Raised("NotImplementedError")
            ELSE AssembleMask(rasterised.slice_list, rasterised.mask_list,
                              img, policy)

(***************************************************************************)
(* check_mask and to_object.                                               *)
(*                                                                         *)
(* self.file is the structure set on disk: whether it has a structure set  *)
(* ROI sequence (3006, 0020), the entries of that sequence (ROI name, None *)
(* when absent, and ROI number) and the ROI contour sequences              *)
(* (3006, 0039).  self.metadata_loaded tells whether load_metadata has     *)
(* read it into image_metadata.  self.roi_name is None, a string, a list   *)
(* or a mapping (a sequence of <<key, value>> pairs).                      *)
(***************************************************************************)
\* faulty variant: ROI names are not looked at
CheckMaskIgnoresNames(obj, raise_error) ==
    IF ~obj.metadata_loaded
    THEN Raised("TypeError")
    ELSE IF ~obj.file.has_roi_sequence
    THEN [kind |-> "returned", value |-> FALSE, warning |-> raise_error]
    ELSE [kind |-> "returned", value |-> TRUE, warning |-> FALSE]

\* lines 69-98; the result and whether a warning was emitted
CheckMask(obj, raise_error) ==
    IF ~obj.metadata_loaded
    THEN Raised("TypeError")
    ELSE IF ~obj.file.has_roi_sequence
    THEN [kind |-> "returned", value |-> FALSE, warning |-> raise_error]
    ELSE LET roi_name_present ==
                 [n \in 1..Len(obj.file.structure_set_roi_sequence) |->
                     obj.file.structure_set_roi_sequence[n].roi_name]
         IN IF Len(roi_name_present) = 0 /\ raise_error
            THEN [kind |-> "returned", value |-> FALSE, warning |-> TRUE]
            ELSE IF (\E n \in 1..Len(roi_name_present) : roi_name_present[n] = None)
                    /\ raise_error
            THEN [kind |-> "returned", value |-> FALSE, warning |-> TRUE]
            ELSE [kind |-> "returned", value |-> TRUE, warning |-> FALSE]

\* lines 136-142; the names the caller asked for, when roi_name is not None
ProvidedRoiNames(roi_name) ==
    IF roi_name.kind = "str" THEN <<roi_name.name>>
    ELSE IF roi_name.kind = "list" THEN roi_name.names
    ELSE [n \in 1..Len(roi_name.items) |-> roi_name.items[n][1]]

\* lines 144-148: the entries of the structure set ROI sequence that are
\* candidates
SelectedRois(obj) ==
    IF obj.roi_name.kind = "none"
    THEN obj.file.structure_set_roi_sequence
    ELSE SelectSeq(obj.file.structure_set_roi_sequence,
                   LAMBDA e : e.roi_name \in Range(ProvidedRoiNames(obj.roi_name)))

RoiNamePresent(obj) ==
    [n \in 1..Len(SelectedRois(obj)) |-> SelectedRois(obj)[n].roi_name]

RoiNumberPresent(obj) ==
    [n \in 1..Len(SelectedRois(obj)) |-> SelectedRois(obj)[n].roi_number]

\* roi_name.get(key) of a mapping (None for a key it does not hold)
DictGet(items, key) ==
    IF \E n \in 1..Len(items) : items[n][1] = key
    THEN items[CHOOSE n \in 1..Len(items) : items[n][1] = key][2]
    ELSE None

\* faulty variant: the name of the first candidate ROI, whatever the number
CurrentRoiNameFirst(obj, current_roi_number) ==
    IF obj.roi_name.kind = "dict"
    THEN DictGet(obj.roi_name.items, RoiNamePresent(obj)[1])
    ELSE RoiNamePresent(obj)[1]

\* lines 209-214: the name of the mask of the ROI with this number
CurrentRoiName(obj, current_roi_number) ==
    LET roi_name_present == RoiNamePresent(obj)
        roi_number_present == RoiNumberPresent(obj)
        current_roi_name ==
            roi_name_present[CHOOSE ii \in 1..Len(roi_number_present) :
                /\ roi_number_present[ii] = current_roi_number
                /\ \A jj \in 1..(ii - 1) : roi_number_present[jj] # current_roi_number]
    IN IF obj.roi_name.kind = "dict"
       THEN DictGet(obj.roi_name.items, current_roi_name)
       ELSE current_roi_name

\* lines 199-227: the mask object of one ROI
BaseMask(current_roi_name, image_data, img) ==
    [roi_name |-> current_roi_name,
     image_data |-> image_data,
     image_spacing |-> img.image_spacing,
     image_origin |-> img.image_origin,
     image_orientation |-> img.image_orientation,
     image_dimension |-> img.image_dimension]

\* faulty variant: without an image the call returns None
ToObjectStartReturnsNone ==
    /\ pc = "call"
    /\ IF image = NoImage
       THEN /\ outcome' = ReturnedNone
            /\ pc' = "done"
            /\ self' = self
       ELSE /\ self' = [self EXCEPT !.metadata_loaded = TRUE]
            /\ pc' = "loaded"
            /\ outcome' = outcome
    /\ UNCHANGED <<image, roi, result, checks, temporary_image,
                   disconnected_segments, roi_index, mask_list, warned, call>>

\* lines 109-117: without an image the call raises; otherwise the metadata
\* of the structure set are loaded
ToObjectStart ==
    /\ pc = "call"
    /\ IF image = NoImage
       THEN /\ outcome' = Raised("TypeError")
            /\ pc' = "done"
            /\ self' = self
       ELSE /\ self' = [self EXCEPT !.metadata_loaded = TRUE]
            /\ pc' = "loaded"
            /\ outcome' = outcome
    /\ UNCHANGED <<image, roi, result, checks, temporary_image,
                   disconnected_segments, roi_index, mask_list, warned, call>>

\* lines 118-119: check_mask() with its default raise_error=True
CheckMaskStep ==
    /\ pc = "loaded"
    /\ \E checked \in {CheckMask(self, TRUE)} :
          /\ warned' = checked.warning
          /\ IF checked.value
             THEN pc' = "checked" /\ outcome' = outcome
             ELSE pc' = "done" /\ outcome' = ReturnedNone
    /\ UNCHANGED <<image, roi, result, checks, temporary_image, self,
                   disconnected_segments, roi_index, mask_list, call>>

\* lines 121-151: the candidate ROIs; without any the call returns None
SelectRois ==
    /\ pc = "checked"
    /\ IF Len(RoiNumberPresent(self)) = 0
       THEN pc' = "done" /\ outcome' = ReturnedNone /\ roi_index' = roi_index
       ELSE pc' = "loop" /\ outcome' = outcome /\ roi_index' = 1
    /\ UNCHANGED <<image, roi, result, checks, temporary_image, self,
                   disconnected_segments, mask_list, warned, call>>

\* a variant without lines 229-230
NextRoiReturnsList ==
    /\ pc = "loop"
    /\ LET sequences == self.file.roi_contour_sequences
       IN IF roi_index > Len(sequences)
          THEN /\ pc' = "done"
               /\ outcome' = Returned(mask_list)
               /\ UNCHANGED <<roi, roi_index>>
          ELSE IF sequences[roi_index].roi_number \notin Range(RoiNumberPresent(self))
          THEN /\ roi_index' = roi_index + 1
               /\ UNCHANGED <<pc, outcome, roi>>
          ELSE /\ roi' = sequences[roi_index]
               /\ pc' = "start"
               /\ UNCHANGED <<outcome, roi_index>>
    /\ result' = NoResult
    /\ checks' = NoChecks
    /\ temporary_image' = NoImage
    /\ UNCHANGED <<image, self, disconnected_segments, mask_list, warned, call>>

\* lines 154-163 and 229-232: the next ROI contour sequence; one whose ROI
\* number is not a candidate is passed over; after the last one the masks
\* are returned, or None when there are none
NextRoi ==
    /\ pc = "loop"
    /\ LET sequences == self.file.roi_contour_sequences
       IN IF roi_index > Len(sequences)
          THEN /\ pc' = "done"
               /\ outcome' = IF Len(mask_list) = 0 THEN ReturnedNone
                             ELSE Returned(mask_list)
               /\ UNCHANGED <<roi, roi_index>>
          ELSE IF sequences[roi_index].roi_number \notin Range(RoiNumberPresent(self))
          THEN /\ roi_index' = roi_index + 1
               /\ UNCHANGED <<pc, outcome, roi>>
          ELSE /\ roi' = sequences[roi_index]
               /\ pc' = "start"
               /\ UNCHANGED <<outcome, roi_index>>
    /\ result' = NoResult
    /\ checks' = NoChecks
    /\ temporary_image' = NoImage
    /\ UNCHANGED <<image, self, disconnected_segments, mask_list, warned, call>>

\* line 402 inside _create_image_from_contour: the ValueError leaves
\* to_object
GridBuilderRaises ==
    /\ pc = "raised"
    /\ pc' = "done"
    /\ outcome' = Raised("ValueError")
    /\ UNCHANGED <<image, roi, result, checks, temporary_image, self,
                   disconnected_segments, roi_index, mask_list, warned, call>>

\* a variant in which the voxel array of the previous mask is written to
\* again
ConvertRoiSharedVolume ==
    /\ pc \in {"created", "direct"}
    /\ \E image_data \in
            {ConvertContourToMask(roi.contours,
                                  IF pc = "created" THEN temporary_image ELSE image,
                                  "ray_cast", disconnected_segments)} :
          IF image_data.kind = "raised"
          THEN /\ pc' = "done"
               /\ outcome' = image_data
               /\ UNCHANGED <<mask_list, roi_index>>
          ELSE /\ pc' = "loop"
               /\ roi_index' = roi_index + 1
               /\ outcome' = outcome
               /\ mask_list' =
                    IF image_data.kind = "none" THEN mask_list
                    ELSE IF image_data.value = {} THEN mask_list
                    ELSE Append(mask_list,
                                BaseMask(CurrentRoiName(self, roi.roi_number),
                                         image_data.value
                                           \cup (IF mask_list = <<>> THEN {}
                                                 ELSE mask_list[Len(mask_list)].image_data),
                                         image))
    /\ UNCHANGED <<image, roi, result, checks, temporary_image, self,
                   disconnected_segments, warned, call>>

\* lines 180-227: the contours are rasterised on the grid chosen, an empty
\* result is passed over, any other becomes a mask object
ConvertRoi ==
    /\ pc \in {"created", "direct"}
    /\ \E image_data \in
            {ConvertContourToMask(roi.contours,
                                  IF pc = "created" THEN temporary_image ELSE image,
                                  "ray_cast", disconnected_segments)} :
          IF image_data.kind = "raised"
          THEN /\ pc' = "done"
               /\ outcome' = image_data
               /\ UNCHANGED <<mask_list, roi_index>>
          ELSE /\ pc' = "loop"
               /\ roi_index' = roi_index + 1
               /\ outcome' = outcome
               /\ mask_list' =
                    IF image_data.kind = "none" THEN mask_list
                    ELSE IF image_data.value = {} THEN mask_list
                    ELSE Append(mask_list,
                                BaseMask(CurrentRoiName(self, roi.roi_number),
                                         image_data.value, image))
    /\ UNCHANGED <<image, roi, result, checks, temporary_image, self,
                   disconnected_segments, warned, call>>

ToObjectNext ==
    \/ ToObjectStart
    \/ CheckMaskStep
    \/ SelectRois
    \/ NextRoi
    \/ DecideStrategy
    \/ CreateImageFromContour
    \/ UseImageDirectly
    \/ GridBuilderRaises
    \/ ConvertRoi

(***************************************************************************)
(* The static helpers called on their own: _match_slice_position,          *)
(* _merge_contours and _collect_contours, each applied once to arguments   *)
(* drawn from a catalogue.                                                 *)
(***************************************************************************)
\* the largest number of known slice positions of an image
MaxKnown == 3

\* the largest number of contour objects handed to _merge_contours
MaxMerge == 3

\* all sequences over S of length 0..n
RECURSIVE SeqsUpTo(_, _)
SeqsUpTo(S, n) ==
    IF n = 0 THEN {<<>>}
    ELSE LET shorter == SeqsUpTo(S, n - 1)
         IN shorter \cup {Append(q, x) : q \in {r \in shorter : Len(r) = n - 1}, x \in S}

\* slice spacings of 1 mm and 2 mm
SliceSpacings == {1000 * MilliDen, 2000 * MilliDen}

\* known slice positions: on the 1 mm grid, and 0.0004 mm off slice 0
PositionValues == {0, 4, 1000 * MilliDen, 2000 * MilliDen}

MatchCalls ==
    {[op |-> "match", slice_position |-> sp, known_position |-> kp,
      image_spacing_z |-> sz] :
        sp \in -1..2, kp \in SeqsUpTo(PositionValues, MaxKnown), sz \in SliceSpacings}

\* which_slice() of a contour object: one slice id, or two for a contour
\* object that holds sub-contours of two slices
WhichSlice == {<<0>>, <<1>>, <<2>>, <<0, 1>>}

MergeCalls ==
    {[op |-> "merge", slice_ids |-> ids] :
        ids \in SeqsUpTo(WhichSlice, MaxMerge) \ {<<>>}}

\* entries of a contour sequence: closed planar without and with an offset
\* vector, another geometric type, no geometric type, no contour data
CollectEntries ==
    { ClosedPlanar(AxialContour(0, 1, 2, 0, 3)),
      ClosedPlanar(AxialContour(1, 1, 2, 0, 3)),
      [gtype |-> "CLOSED_PLANAR", pts |-> AxialContour(2, 1, 2, 0, 3),
       offset |-> <<1, 0, 2>>],
      [gtype |-> "POINT", pts |-> <<<<0, 1, 1>>>>],
      [gtype |-> None, pts |-> AxialContour(0, 1, 2, 0, 3)],
      [gtype |-> "CLOSED_PLANAR", pts |-> <<>>] }

CollectCalls ==
    {[op |-> "collect", roi_contour_sequence |-> q] :
        q \in SeqsUpTo(CollectEntries, MaxContours)}

\* a ROI contour sequence that is not part of the run
NoRoi == [series_instance_uid |-> None, contours |-> <<>>, for_refs |-> <<>>]

\* the variables of the ROI strategy decision and of to_object at rest
RoiIdle ==
    /\ image = NoImage
    /\ roi = NoRoi
    /\ pc = "idle"
    /\ result = NoResult
    /\ checks = NoChecks
    /\ temporary_image = NoImage

ToObjectIdle ==
    /\ self = NoObject
    /\ disconnected_segments = "keep_as_is"
    /\ roi_index = 0
    /\ mask_list = <<>>
    /\ warned = FALSE

HelperInit ==
    /\ RoiIdle
    /\ ToObjectIdle
    /\ outcome = Running
    /\ call \in MatchCalls \cup MergeCalls \cup CollectCalls

\* lines 619-631
MatchSlicePositionCall ==
    /\ call.op = "match"
    /\ outcome = Running
    /\ outcome' = MatchSlicePosition(call.slice_position, call.known_position,
                                     call.image_spacing_z)
    /\ UNCHANGED <<roi_vars, self, disconnected_segments, roi_index, mask_list,
                   warned, call>>

\* lines 590-617
MergeContoursCall ==
    /\ call.op = "merge"
    /\ outcome = Running
    /\ outcome' = Returned(MergeContours(call.slice_ids))
    /\ UNCHANGED <<roi_vars, self, disconnected_segments, roi_index, mask_list,
                   warned, call>>

\* lines 540-588
CollectContoursCall ==
    /\ call.op = "collect"
    /\ outcome = Running
    /\ outcome' = Returned(CollectContours(call.roi_contour_sequence))
    /\ UNCHANGED <<roi_vars, self, disconnected_segments, roi_index, mask_list,
                   warned, call>>

HelperNext == MatchSlicePositionCall \/ MergeContoursCall \/ CollectContoursCall

SpecHelpers == HelperInit /\ [][HelperNext]_vars

(***************************************************************************)
(* convert_contour_to_mask called on its own, for one ROI contour sequence *)
(* and one grid.                                                           *)
(***************************************************************************)
\* the grid of a 3 x 2 x 2 image with 1 mm voxels
MaskGrid ==
    [series_instance_uid |-> None,
     sop_instance_uid |-> <<>>,
     image_origin |-> <<0, 0, 0>>,
     image_spacing |-> <<1, 1, 1>>,
     image_dimension |-> <<3, 2, 2>>,
     image_orientation |-> Identity3]

\* filled polygons on a 2 x 2 slice: none of the cell centres, one cell, the
\* opposite cell, a row, all cells
RasterMasks ==
    { {}, {<<0, 0>>}, {<<1, 1>>}, {<<0, 0>>, <<0, 1>>},
      {<<0, 0>>, <<0, 1>>, <<1, 0>>, <<1, 1>>} }

\* slices 0..2 lie in the grid, slice 3 beyond it
RasterSlices == 0..3

\* closed planar entries with what they rasterise to, and an entry of
\* another geometric type
RasterEntries ==
    {[gtype |-> "CLOSED_PLANAR",
      pts |-> AxialContour(z, 0, 2, 0, 2),
      refs |-> <<>>,
      raster |-> [slice_id |-> z, mask |-> m]] : z \in RasterSlices, m \in RasterMasks}
    \cup {[gtype |-> "POINT", pts |-> <<<<0, 1, 1>>>>, refs |-> <<>>]}

DrawMethods == {"ray_cast", "scanline"}

Policies == {"keep_as_is", "keep_largest"}

\* disconnected_segments is any string: the two policies and another one
MaskPolicies == Policies \cup {"keep_all"}

MaskInit ==
    /\ image \in {MaskGrid, NoImage}
    /\ roi \in {[series_instance_uid |-> None, contours |-> q, for_refs |-> <<>>] :
                    q \in SeqsUpTo(RasterEntries, MaxContours)}
    /\ pc = "idle"
    /\ result = NoResult
    /\ checks = NoChecks
    /\ temporary_image = NoImage
    /\ self = NoObject
    /\ disconnected_segments \in MaskPolicies
    /\ roi_index = 0
    /\ mask_list = <<>>
    /\ warned = FALSE
    /\ outcome = Running
    /\ call \in {[op |-> "convert", draw_method |-> dm] : dm \in DrawMethods}

\* lines 432-538
ConvertContourToMaskCall ==
    /\ call.op = "convert"
    /\ outcome = Running
    /\ outcome' = ConvertContourToMask(roi.contours, image, call.draw_method,
                                       disconnected_segments)
    /\ UNCHANGED <<roi_vars, self, disconnected_segments, roi_index, mask_list,
                   warned, call>>

MaskNext == ConvertContourToMaskCall

SpecMask == MaskInit /\ [][MaskNext]_vars

(***************************************************************************)
(* One to_object call on a structure set drawn from a catalogue.           *)
(***************************************************************************)
\* the largest number of ROIs of a structure set
MaxRois == 3

RoiNames == <<"GTV", "CTV", "External", "PTV">>

\* a closed planar entry at world z with what it rasterises to
RasterContour(z, slice_id, mask) ==
    [gtype |-> "CLOSED_PLANAR",
     pts |-> AxialContour(z, 1, 2, 0, 3),
     refs |-> <<>>,
     raster |-> [slice_id |-> slice_id, mask |-> mask]]

\* the contour sequences of an ROI: one slice with a filled cell; one slice
\* on which no cell centre is inside the polygon; no closed planar contour;
\* two slices five apart; one slice at world z = 1
RoiKinds == {"filled", "empty", "point", "apart", "offgrid"}

KindContours(kind) ==
    IF kind = "filled" THEN <<RasterContour(0, 0, {<<0, 0>>})>>
    ELSE IF kind = "empty" THEN <<RasterContour(0, 0, {})>>
    ELSE IF kind = "point" THEN <<[gtype |-> "POINT", pts |-> <<<<0, 1, 1>>>>, refs |-> <<>>]>>
    ELSE IF kind = "apart"
    THEN <<RasterContour(0, 0, {<<0, 0>>}), RasterContour(5, 1, {<<1, 1>>})>>
    ELSE <<RasterContour(1, 1, {<<0, 0>>, <<0, 1>>})>>

\* a structure set with n ROIs numbered 1..n, named after RoiNames except
\* for ROI number unnamed (0: all are named); the ROI contour sequences
\* come in the reverse order of the structure set ROI sequence
StructureSet(n, unnamed, kinds) ==
    [has_roi_sequence |-> TRUE,
     structure_set_roi_sequence |->
        [i \in 1..n |->
            [roi_name |-> IF i = unnamed THEN None ELSE RoiNames[((i - 1) % 4) + 1],
             roi_number |-> i]],
     roi_contour_sequences |->
        [j \in 1..n |->
            [roi_number |-> n + 1 - j,
             series_instance_uid |-> "s1",
             contours |-> KindContours(kinds[n + 1 - j]),
             for_refs |-> <<>>]]]

StructureSets ==
    {StructureSet(n, unnamed, kinds) :
        <<n, unnamed, kinds>> \in
            UNION {{<<m, u, k>> : u \in {0, 1} \cap 0..m, k \in [1..m -> RoiKinds]} :
                       m \in 0..MaxRois}}
    \cup {[has_roi_sequence |-> FALSE,
           structure_set_roi_sequence |-> <<>>,
           roi_contour_sequences |-> <<>>]}

\* roi_name: None, a name, a list of names, a mapping of names
RoiNameArgs ==
    { [kind |-> "none"],
      [kind |-> "str", name |-> "GTV"],
      [kind |-> "list", names |-> <<"External", "CTV">>],
      [kind |-> "dict", items |-> <<<<"GTV", "A">>, <<"CTV", "B">>>>] }

\* the images of another series, and no image
ToObjectImages ==
    {img \in Images : img.series_instance_uid = "s2"} \cup {NoImage}

ToObjectInit ==
    /\ image \in ToObjectImages
    /\ self \in {[roi_name |-> rn, file |-> f, metadata_loaded |-> FALSE] :
                    rn \in RoiNameArgs, f \in StructureSets}
    /\ disconnected_segments \in Policies
    /\ roi = NoRoi
    /\ pc = "call"
    /\ result = NoResult
    /\ checks = NoChecks
    /\ temporary_image = NoImage
    /\ roi_index = 0
    /\ mask_list = <<>>
    /\ warned = FALSE
    /\ outcome = Running
    /\ call = NoCall

SpecToObject == ToObjectInit /\ [][ToObjectNext]_vars

(***************************************************************************)
(* check_mask called on its own, with either value of raise_error, on an   *)
(* object whose metadata were or were not loaded.                          *)
(***************************************************************************)
CheckMaskInit ==
    /\ RoiIdle
    /\ self \in {[roi_name |-> [kind |-> "none"], file |-> f, metadata_loaded |-> l] :
                    f \in StructureSets, l \in BOOLEAN}
    /\ disconnected_segments = "keep_as_is"
    /\ roi_index = 0
    /\ mask_list = <<>>
    /\ warned = FALSE
    /\ outcome = Running
    /\ call \in {[op |-> "check_mask", raise_error |-> r] : r \in BOOLEAN}

\* lines 69-98
CheckMaskCall ==
    /\ call.op = "check_mask"
    /\ outcome = Running
    /\ \E checked \in {CheckMask(self, call.raise_error)} :
          IF checked.kind = "raised"
          THEN outcome' = checked /\ warned' = warned
          ELSE outcome' = Returned(checked.value) /\ warned' = checked.warning
    /\ UNCHANGED <<roi_vars, self, disconnected_segments, roi_index, mask_list, call>>

CheckMaskNext == CheckMaskCall

SpecCheckMask == CheckMaskInit /\ [][CheckMaskNext]_vars

(***************************************************************************)
(* utilities.py: the modality listings, and the directory test on a path.  *)
(* A path is the sequence of its characters; a modality is a name or None. *)
(***************************************************************************)
\* str.lower() on the modality names in use
Lower(modality) ==
    CASE modality = "CT" -> "ct"
      [] modality = "PET" -> "pet"
      [] modality = "MRI" -> "mri"
      [] modality = "RTSTRUCT" -> "rtstruct"
      [] modality = "SEG" -> "seg"
      [] OTHER -> modality

\* lines 9-33
SupportedImageModalities(modality) ==
    IF modality = None THEN Returned(<<"ct", "pt", "mr", "generic">>)
    ELSE LET name == Lower(modality)
         IN IF name = "ct" THEN Returned(<<"ct">>)
            ELSE IF name \in {"pt", "pet"} THEN Returned(<<"pt">>)
            ELSE IF name \in {"mr", "mri"} THEN Returned(<<"mr">>)
            ELSE IF name = "generic" THEN Returned(<<"generic">>)
            ELSE Raised("ValueError")

\* lines 40-60
SupportedMaskModalities(modality) ==
    IF modality = None THEN Returned(<<"rtsruct", "seg", "generic_mask">>)
    ELSE LET name == Lower(modality)
         IN IF name = "rtstruct" THEN Returned(<<"rtstruct">>)
            ELSE IF name \in {"seg"} THEN Returned(<<"seg">>)
            ELSE IF name = "generic_mask" THEN Returned(<<"generic_mask">>)
            ELSE Raised("ValueError")

Sep == "/"

\* the number of characters of p up to and including its last separator
LastSep(p) ==
    IF \E i \in 1..Len(p) : p[i] = Sep
    THEN CHOOSE i \in 1..Len(p) : p[i] = Sep /\ \A k \in (i + 1)..Len(p) : p[k] # Sep
    ELSE 0

RECURSIVE RStripSep(_)
RStripSep(p) ==
    IF p # <<>> /\ p[Len(p)] = Sep THEN RStripSep(SubSeq(p, 1, Len(p) - 1)) ELSE p

\* os.path.split: the tail follows the last separator; the head loses its
\* trailing separators unless it consists of separators only
Split(p) ==
    LET i == LastSep(p)
        head == SubSeq(p, 1, i)
    IN [head |-> IF head # <<>> /\ (\E k \in 1..Len(head) : head[k] # Sep)
                 THEN RStripSep(head) ELSE head,
        tail |-> SubSeq(p, i + 1, Len(p))]

\* lines 229-236: path_parts in the order the loop appends them
RECURSIVE SplitParts(_)
SplitParts(x_head) ==
    LET s == Split(x_head)
    IN IF s.tail = <<>> THEN <<s.head>> ELSE <<s.tail>> \o SplitParts(s.head)

Reversed(seq) == [n \in 1..Len(seq) |-> seq[Len(seq) + 1 - n]]

\* lines 222-238
PathToParts(x) == Reversed(SplitParts(x))

\* lines 265-284: the (1-based) index in x matched to each part of
\* current_ignore_dir, 0 for a part that was not matched
MatchIndex(x, current_ignore_dir) ==
    LET first == IF \E ii \in 1..Len(x) : x[ii] = current_ignore_dir[1]
                 THEN CHOOSE ii \in 1..Len(x) :
                         /\ x[ii] = current_ignore_dir[1]
                         /\ \A k \in 1..(ii - 1) : x[k] # current_ignore_dir[1]
                 ELSE 0
    IN [jj \in 1..Len(current_ignore_dir) |->
          IF /\ first # 0
             /\ \A k \in 2..jj : /\ first + k - 1 <= Len(x)
                                 /\ x[first + k - 1] = current_ignore_dir[k]
          THEN first + jj - 1
          ELSE 0]

\* a variant that strips the parts that were matched, even if not all were
StripIgnoreDirPartial(x, current_ignore_dir) ==
    LET match_index == MatchIndex(x, current_ignore_dir)
    IN SelectByIndex(x, [ii \in 1..Len(x) |->
                            \A jj \in 1..Len(match_index) : match_index[jj] # ii])

\* lines 262-287
StripIgnoreDir(x, current_ignore_dir) ==
    LET match_index == MatchIndex(x, current_ignore_dir)
    IN IF \A jj \in 1..Len(match_index) : match_index[jj] # 0
       THEN SelectByIndex(x, [ii \in 1..Len(x) |->
                                 \A jj \in 1..Len(match_index) : match_index[jj] # ii])
       ELSE x

\* lines 258-259, 292-293: a str argument becomes a list of one
AsList(arg) == IF arg.kind = "list" THEN arg.value ELSE <<arg.value>>

\* lines 261-287
RECURSIVE StripIgnoreDirs(_, _)
StripIgnoreDirs(x, ignore_dirs) ==
    IF ignore_dirs = <<>> THEN x
    ELSE StripIgnoreDirs(StripIgnoreDir(x, PathToParts(Head(ignore_dirs))),
                         Tail(ignore_dirs))

\* lines 241-296
DirStructureContainsDirectory(x, pattern, ignore_dir) ==
    LET parts == IF ignore_dir.kind = "none" THEN PathToParts(x)
                 ELSE StripIgnoreDirs(PathToParts(x), AsList(ignore_dir))
    IN IF Len(parts) = 0 THEN FALSE
       ELSE \E n \in 1..Len(parts) : parts[n] \in Range(AsList(pattern))

\* the directory names of the paths, and the longest path and ignore_dir
DirNames == {"a", "c"}
MaxParts == 3
MaxIgnoreParts == 2

RECURSIVE Joined(_)
Joined(names) ==
    IF names = <<>> THEN <<>>
    ELSE IF Len(names) = 1 THEN <<names[1]>>
    ELSE <<names[1], Sep>> \o Joined(Tail(names))

\* relative and absolute paths, with and without a trailing separator
Paths(n) ==
    {(IF absolute THEN <<Sep>> ELSE <<>>) \o Joined(names)
        \o (IF trailing THEN <<Sep>> ELSE <<>>) :
        names \in SeqsUpTo(DirNames, n), absolute \in BOOLEAN, trailing \in BOOLEAN}

Str(value) == [kind |-> "str", value |-> value]
List(value) == [kind |-> "list", value |-> value]

IgnoreDirs ==
    {[kind |-> "none"]} \cup {Str(p) : p \in Paths(MaxIgnoreParts)}
    \cup {List(<<p, q>>) : p, q \in {<<>>, <<"a">>, <<"a", Sep>>}}

Patterns == {Str(<<d>>) : d \in DirNames} \cup {List(<<<<"a">>, <<"c">>>>)}

DirCalls ==
    [op : {"dir_structure_contains_directory"}, x : Paths(MaxParts),
     pattern : Patterns, ignore_dir : IgnoreDirs]

ModalityArgs ==
    {None, "ct", "CT", "pt", "pet", "PET", "mr", "mri", "MRI", "generic",
     "rtstruct", "RTSTRUCT", "rtsruct", "seg", "SEG", "generic_mask", "dose"}

ModalityCalls ==
    [op : {"supported_image_modalities", "supported_mask_modalities"},
     modality : ModalityArgs]

UtilitiesInit ==
    /\ RoiIdle
    /\ ToObjectIdle
    /\ outcome = Running
    /\ call \in DirCalls \cup ModalityCalls

\* lines 9-33
SupportedImageModalitiesCall ==
    /\ call.op = "supported_image_modalities"
    /\ outcome = Running
    /\ outcome' = SupportedImageModalities(call.modality)
    /\ UNCHANGED <<roi_vars, self, disconnected_segments, roi_index, mask_list,
                   warned, call>>

\* lines 40-60
SupportedMaskModalitiesCall ==
    /\ call.op = "supported_mask_modalities"
    /\ outcome = Running
    /\ outcome' = SupportedMaskModalities(call.modality)
    /\ UNCHANGED <<roi_vars, self, disconnected_segments, roi_index, mask_list,
                   warned, call>>

\* lines 241-296
DirStructureContainsDirectoryCall ==
    /\ call.op = "dir_structure_contains_directory"
    /\ outcome = Running
    /\ outcome' = Returned(DirStructureContainsDirectory(call.x, call.pattern,
                                                         call.ignore_dir))
    /\ UNCHANGED <<roi_vars, self, disconnected_segments, roi_index, mask_list,
                   warned, call>>

UtilitiesNext ==
    \/ SupportedImageModalitiesCall
    \/ SupportedMaskModalitiesCall
    \/ DirStructureContainsDirectoryCall

SpecUtilities == UtilitiesInit /\ [][UtilitiesNext]_vars

(***************************************************************************)
(* Properties of the strategy decision (_convert_contour_using_image).     *)
(***************************************************************************)
Decided == pc # "start"

ContourObjects == CollectContours(roi.contours)

HasContours == ContourObjects # <<>>

\* the unique slice positions of the ROI in the voxel space of the image
Slices == UniqueSlicePositions(ContourObjects, image)

\* every point of a sub-contour has the first voxel coordinate of its
\* first point
SharesSliceCoordinate ==
    \A i \in 1..Len(ContourObjects) : \A j \in 1..Len(ContourObjects[i]) :
        ToVoxelNum(ContourObjects[i][j], image.image_origin, image.image_orientation)[1]
        = ToVoxelNum(ContourObjects[i][1], image.image_origin, image.image_orientation)[1]

\* the first voxel coordinate of the first point of every sub-contour is
\* an integer
IntegerSliceCoordinate ==
    \A i \in 1..Len(ContourObjects) :
        ToVoxelNum(ContourObjects[i][1], image.image_origin, image.image_orientation)[1]
        % image.image_spacing[1] = 0

GeometryPasses == SharesSliceCoordinate /\ IntegerSliceCoordinate

\* C1: when both geometric checks pass and the contours occupy more than
\* one slice position, reference-image use is accepted if and only if the
\* minimum gap between consecutive slice positions is 1 voxel, or the
\* series-UID check passed, or the pooled SOP-UID check passed; contours on
\* slices 0 and 5 with neither UID check passed are rejected.
C1_AdjacentOrConfirmed ==
    (Decided /\ HasContours /\ GeometryPasses /\ Cardinality(Slices) > 1)
    => /\ result[1] <=> \/ MinDiff(Slices) = image.image_spacing[1]
                        \/ checks.series_uid_correct
                        \/ checks.sop_uid_correct
       /\ ( /\ Slices = {0, 5 * image.image_spacing[1]}
            /\ ~checks.series_uid_correct
            /\ ~checks.sop_uid_correct ) => ~result[1]

C1_Witness ==
    /\ Decided /\ HasContours /\ GeometryPasses
    /\ Slices = {0, 5 * image.image_spacing[1]}
    /\ image.series_instance_uid = "s2"
    /\ ~checks.series_uid_correct
    /\ ~checks.sop_uid_correct
    /\ ~result[1]

C3_GeometryRejects ==
    (Decided /\ HasContours /\ ~GeometryPasses)
    => result = <<FALSE, SharesSliceCoordinate, IntegerSliceCoordinate>>

C3_Witness ==
    /\ Decided /\ HasContours
    /\ SharesSliceCoordinate /\ ~IntegerSliceCoordinate
    /\ checks.series_uid_correct
    /\ checks.sop_uid_correct
    /\ result = <<FALSE, TRUE, FALSE>>

\* C4: the pooled SOP-UID check passes whenever the referenced SOP
\* instance UIDs are at least one and are all SOP instance UIDs of the
\* reference image, and fails when one of them is not.
C4_SopCheckIsSubsetTest ==
    Decided =>
        LET referenced == Range(ReferencedSopUids(roi))
            contained == referenced \subseteq Range(image.sop_instance_uid)
        IN /\ (referenced # {} /\ contained) => checks.sop_uid_correct
           /\ ~contained => ~checks.sop_uid_correct

(***************************************************************************)
(* Properties of the synthetic grid (_create_image_from_contour).          *)
(***************************************************************************)
Rejected == Decided /\ ~result[1]

FullSynthetic == pc \in {"created", "raised"} /\ ~UsePosition(result)

\* C5: a rejected ROI with a closed-planar contour gets a synthetic grid;
\* no exception leaves to_object.
C5_RejectionNeverRaises ==
    (Rejected /\ HasContours) => pc # "raised"

\* C6: the full-synthetic branch is not reached by an ROI on a single
\* slice position, and the slice spacing computed there is defined and
\* greater than 0.
C6_SliceSpacingDefined ==
    FullSynthetic
    => /\ Cardinality(Slices) > 1
       /\ pc = "created"
       /\ temporary_image.image_spacing[1] > 0

\* C7: the orientation of every synthetic grid has determinant +1.
C7_RightHanded ==
    pc = "created" => Det3(temporary_image.image_orientation) = 1

\* the points of all contours of the ROI, stacked
OrientationPointsAll(contour_objects) == Flatten(contour_objects)

\* C8: the orientation of the synthetic grid is the one estimated from the
\* points of all contours of the ROI.
C8_OrientationFromAllContours ==
    pc = "created"
    => temporary_image.image_orientation
         \in {MaskOrientation(U) : U \in SvdU(OrientationPointsAll(ContourObjects))}

\* the contour points in the frame of the synthetic grid
GridProjected == Projected(ContourObjects, temporary_image.image_orientation)

\* C9: in full synthetic mode, on each in-plane axis the origin is the
\* minimum projected coordinate minus one spacing unit, the dimension is
\* ceil((max - origin) / spacing) + 1, and the voxel coordinate c of every
\* contour point satisfies 1 <= c <= dimension - 1.
C9_InPlanePadding ==
    (pc = "created" /\ ~UsePosition(result))
    => \A i \in {2, 3} :
         LET origin == temporary_image.image_origin[i]
             spacing == temporary_image.image_spacing[i]
             dimension == temporary_image.image_dimension[i]
             coordinates == Coordinates(GridProjected, i)
         IN /\ origin = Min(coordinates) - spacing
            /\ dimension = CeilDiv(Max(coordinates) - origin, spacing) + 1
            /\ \A c \in coordinates :
                  /\ 1 * spacing <= c - origin
                  /\ c - origin <= (dimension - 1) * spacing

C9_Witness ==
    /\ pc = "created" /\ ~UsePosition(result)
    /\ \E i \in {2, 3} :
          /\ temporary_image.image_spacing[i] > 1
          /\ (Max(Coordinates(GridProjected, i)) - temporary_image.image_origin[i])
                % temporary_image.image_spacing[i] # 0

\* templates that share the in-plane spacing of the image and differ from
\* it in origin, slice spacing, dimension and orientation
OtherTemplates ==
    {[image EXCEPT !.image_origin = <<o, o, o>>,
                   !.image_spacing = <<z, image.image_spacing[2], image.image_spacing[3]>>,
                   !.image_dimension = <<d, d, d>>,
                   !.image_orientation = ReverseColumns(Identity3)] :
        o \in {-7}, z \in {3}, d \in {1, 20}}

\* C10: with use_position true the grid has the spacing, origin and
\* dimension of the template and an orientation derived from the contours;
\* with use_position false origin, slice spacing and dimension do not come
\* from the template, only the in-plane spacing does.
C10_MixedAndFullMode ==
    /\ (pc = "created" /\ UsePosition(result))
       => /\ temporary_image.image_spacing = image.image_spacing
          /\ temporary_image.image_origin = image.image_origin
          /\ temporary_image.image_dimension = image.image_dimension
          /\ temporary_image.image_orientation
               \in {MaskOrientation(U) : U \in SvdU(OrientationPoints(ContourObjects))}
    /\ (pc = "created" /\ ~UsePosition(result))
       => /\ temporary_image.image_spacing[2] = image.image_spacing[2]
          /\ temporary_image.image_spacing[3] = image.image_spacing[3]
          /\ \A template \in OtherTemplates :
                LET other == FullSyntheticGrid(GridProjected, template,
                                               temporary_image.image_orientation)
                IN /\ other.image_origin = temporary_image.image_origin
                   /\ other.image_spacing = temporary_image.image_spacing
                   /\ other.image_dimension = temporary_image.image_dimension

C10_Witness ==
    /\ pc = "created" /\ UsePosition(result)
    /\ temporary_image.image_orientation # image.image_orientation
    /\ temporary_image.image_origin = image.image_origin

(***************************************************************************)
(* Properties of the static helpers.                                       *)
(***************************************************************************)
Called(op) == call.op = op /\ outcome # Running

\* the indices (0-based) of the known positions that coincide with the
\* slice position times the slice spacing, to 3 decimals
MatchingIndices ==
    {i \in 0..(Len(call.known_position) - 1) :
        Abs(call.slice_position * call.image_spacing_z - call.known_position[i + 1]) * 2
            <= MilliDen}

\* C13: _match_slice_position returns the index of a known position that
\* coincides with slice_position * image_spacing_z (difference 0 after
\* rounding to 3 decimals), returns None when no known position matches,
\* and never raises, also when two known positions match.
C13_MatchNeverRaises ==
    Called("match")
    => /\ outcome.kind = "returned"
       /\ IF MatchingIndices = {}
          THEN outcome.value = <<>>
          ELSE Len(outcome.value) = 1 /\ outcome.value[1] \in MatchingIndices

\* the contour objects (1-based indices) that occupy a slice id
Occupying(slice_id) ==
    {ii \in 1..Len(call.slice_ids) : slice_id \in Range(call.slice_ids[ii])}

OccupiedSliceIds == UNION {Range(call.slice_ids[ii]) : ii \in 1..Len(call.slice_ids)}

\* C18: _merge_contours returns exactly one merged contour per unique slice
\* index occupied by the input contours; for each slice index the first
\* contour in input order that occupies it is the primary, and every other
\* contour occupying that slice is passed to merge as a secondary exactly
\* once.
C18_OneMergePerSlice ==
    Called("merge")
    => LET merged == outcome.value
       IN /\ outcome.kind = "returned"
          /\ Len(merged) = Cardinality(OccupiedSliceIds)
          /\ {merged[n].slice_id : n \in 1..Len(merged)} = OccupiedSliceIds
          /\ \A n \in 1..Len(merged) :
                LET m == merged[n]
                IN /\ m.parent_contour = Min(Occupying(m.slice_id))
                   /\ Range(m.merging_contours)
                        = Occupying(m.slice_id) \ {m.parent_contour}
                   /\ Len(m.merging_contours)
                        = Cardinality(Occupying(m.slice_id)) - 1

C18_Witness ==
    /\ Called("merge")
    /\ \E n \in 1..Len(outcome.value) :
          /\ Len(outcome.value[n].merging_contours) = 2
          /\ outcome.value[n].parent_contour = 1
    /\ Len(outcome.value) = 2

\* the entries (1-based indices) of the contour sequence that are closed
\* planar and carry contour data
KeptEntries ==
    {i \in 1..Len(call.roi_contour_sequence) :
        /\ call.roi_contour_sequence[i].gtype = "CLOSED_PLANAR"
        /\ Len(call.roi_contour_sequence[i].pts) > 0}

\* the position in the input of the n-th kept entry
KeptEntry(n) ==
    CHOOSE i \in KeptEntries : Cardinality({j \in KeptEntries : j < i}) = n - 1

\* C19: _collect_contours skips every entry whose geometric type is absent
\* or not "CLOSED_PLANAR" or that has no contour data, keeps every other
\* entry in input order with the point offset (zero when absent) subtracted
\* from each point, and returns None, without raising, when nothing is
\* kept.
C19_CollectSkipsUnsupported ==
    Called("collect")
    => LET contour_objects == outcome.value
       IN /\ outcome.kind = "returned"
          /\ Len(contour_objects) = Cardinality(KeptEntries)
          /\ \A n \in 1..Len(contour_objects) :
                LET entry == call.roi_contour_sequence[KeptEntry(n)]
                    offset == IF "offset" \in DOMAIN entry
                              THEN entry.offset ELSE <<0, 0, 0>>
                IN /\ Len(contour_objects[n]) = Len(entry.pts)
                   /\ \A j \in 1..Len(entry.pts) : \A k \in 1..3 :
                         contour_objects[n][j][k] + offset[k] = entry.pts[j][k]

C19_Witness ==
    /\ Called("collect")
    /\ Len(call.roi_contour_sequence) = 2
    /\ call.roi_contour_sequence[1].gtype = "POINT"
    /\ "offset" \in DOMAIN call.roi_contour_sequence[2]
    /\ Len(outcome.value) = 1
    /\ outcome.value[1][1] = <<1, 1, -2>>

(***************************************************************************)
(* Properties of convert_contour_to_mask.                                  *)
(***************************************************************************)
\* C12: convert_contour_to_mask with a draw_method other than "ray_cast"
\* always fails with the method-not-implemented error, for every input,
\* also for an ROI without closed-planar contours and for a missing image;
\* it never returns a mask or None.
C12_UnknownMethodAlwaysFails ==
    (Called("convert") /\ call.draw_method # "ray_cast")
    => outcome = Raised("NotImplementedError")

\* the volume assembled from the rasterised slices, before any filtering
\* of disconnected segments
AssembledVolume ==
    ConvertContourToMask(roi.contours, image, call.draw_method, "keep_as_is")

KeptLargest ==
    /\ Called("convert")
    /\ disconnected_segments = "keep_largest"
    /\ outcome.kind = "returned"

\* C14: with "keep_largest" the returned volume is exactly one connected
\* component of the assembled volume, no other component has more voxels,
\* and among components of the same voxel count it is the one with the
\* lowest label.
C14_KeepsLargestRegion ==
    KeptLargest
    => LET regions == LabelRegions(AssembledVolume.value)
       IN \E n \in 1..Len(regions) :
             /\ outcome.value = regions[n]
             /\ \A m \in 1..Len(regions) :
                   /\ Cardinality(regions[m]) <= Cardinality(regions[n])
                   /\ Cardinality(regions[m]) = Cardinality(regions[n]) => n <= m

C14_Witness ==
    /\ KeptLargest
    /\ LET regions == LabelRegions(AssembledVolume.value)
       IN /\ Len(regions) = 2
          /\ Cardinality(regions[1]) = Cardinality(regions[2])
          /\ outcome.value = regions[1]

\* voxels that touch only at a corner
CornerNeighbours(u, v) == \A i \in 1..3 : Abs(u[i] - v[i]) = 1

\* C15: under "keep_largest" a true voxel that touches a retained voxel
\* only at a corner is retained with it (26-connectivity).
C15_CornerNeighboursKeptTogether ==
    KeptLargest
    => \A u \in outcome.value : \A v \in AssembledVolume.value :
          CornerNeighbours(u, v) => v \in outcome.value

(***************************************************************************)
(* Properties of to_object and check_mask.                                 *)
(***************************************************************************)
ToObjectDone == pc = "done"

\* C11: to_object called with image = None raises an error before any
\* metadata is loaded or any ROI is processed, and produces no mask.
C11_NoImageRaisesFirst ==
    (image = NoImage /\ pc # "call")
    => /\ outcome = Raised("TypeError")
       /\ ~self.metadata_loaded
       /\ ~warned
       /\ roi = NoRoi
       /\ roi_index = 0
       /\ mask_list = <<>>

C11_Witness ==
    /\ image = NoImage
    /\ ToObjectDone
    /\ outcome.kind = "raised"
    /\ self.file.has_roi_sequence
    /\ Len(self.file.roi_contour_sequences) = 2
    /\ self.file.structure_set_roi_sequence[1].roi_name = "GTV"

\* the structure set has no ROI sequence, or an ROI without a name
Degraded ==
    \/ ~self.file.has_roi_sequence
    \/ \E n \in 1..Len(self.file.structure_set_roi_sequence) :
          self.file.structure_set_roi_sequence[n].roi_name = None

\* C20: for a structure set with no ROI sequence, or with an ROI lacking a
\* name, check_mask emits a warning and returns False without raising, and
\* to_object then returns None without processing any ROI.
C20_DegradesGracefully ==
    (image # NoImage /\ Degraded /\ pc \notin {"call", "loaded"})
    => /\ ToObjectDone
       /\ warned
       /\ outcome = ReturnedNone
       /\ roi = NoRoi
       /\ roi_index = 0
       /\ mask_list = <<>>

C20_Witness ==
    /\ image # NoImage
    /\ ToObjectDone
    /\ self.file.has_roi_sequence
    /\ Len(self.file.structure_set_roi_sequence) = 2
    /\ self.file.structure_set_roi_sequence[1].roi_name = None
    /\ self.file.structure_set_roi_sequence[2].roi_name = "CTV"
    /\ warned
    /\ outcome = ReturnedNone

\* the names the caller selected, and the name a mask gets for an ROI name
IsCandidateName(name) ==
    IF self.roi_name.kind = "none" THEN TRUE
    ELSE IF self.roi_name.kind = "str" THEN name = self.roi_name.name
    ELSE IF self.roi_name.kind = "list" THEN name \in Range(self.roi_name.names)
    ELSE \E n \in 1..Len(self.roi_name.items) : self.roi_name.items[n][1] = name

MaskNameFor(name) ==
    IF self.roi_name.kind = "dict"
    THEN (CHOOSE item \in Range(self.roi_name.items) : item[1] = name)[2]
    ELSE name

\* the ROI contour sequence with the ROI number of an entry of the
\* structure set ROI sequence
ContoursOf(entry) ==
    (CHOOSE q \in Range(self.file.roi_contour_sequences) :
        q.roi_number = entry.roi_number).contours

\* the voxel array is one that the contours of this ROI can rasterise to
IsMaskOf(image_data, contours) ==
    IF contours = KindContours("filled") THEN image_data = {<<0, 0, 0>>}
    ELSE IF contours = KindContours("offgrid")
    THEN image_data = {<<1, 0, 0>>, <<1, 0, 1>>}
    ELSE IF contours = KindContours("apart")
    THEN image_data # {} /\ image_data \subseteq {<<0, 0, 0>>, <<1, 1, 1>>}
    ELSE FALSE

MaskNames == [n \in 1..Len(mask_list) |-> mask_list[n].roi_name]

\* the structure set of the example: GTV, CTV, External, all with a filled
\* slice, selected through {"GTV": "A", "CTV": "B"}
RemappingExample ==
    /\ self.file = StructureSet(3, 0, [i \in 1..3 |-> "filled"])
    /\ self.roi_name.kind = "dict"
    /\ image # NoImage

\* C16: every mask emitted by to_object belongs to an ROI whose name was
\* selected (any ROI when roi_name is None; the string, a member of the
\* list, a key of the mapping otherwise), carries the name of that very ROI
\* (the mapping value when a mapping is given) and no two masks belong to
\* the same ROI; an error is only ever raised while a selected ROI is
\* processed; {"GTV": "A", "CTV": "B"} on GTV, CTV, External yields exactly
\* the two masks A and B.
C16_SelectionAndRemapping ==
    /\ \A n \in 1..Len(mask_list) :
          \E entry \in Range(self.file.structure_set_roi_sequence) :
             /\ IsCandidateName(entry.roi_name)
             /\ mask_list[n].roi_name = MaskNameFor(entry.roi_name)
             /\ IsMaskOf(mask_list[n].image_data, ContoursOf(entry))
    /\ \A n, m \in 1..Len(mask_list) : MaskNames[n] = MaskNames[m] => n = m
    /\ (image # NoImage /\ outcome.kind = "raised")
       => \E entry \in Range(self.file.structure_set_roi_sequence) :
             /\ entry.roi_number = roi.roi_number
             /\ IsCandidateName(entry.roi_name)
    /\ (RemappingExample /\ ToObjectDone)
       => /\ outcome = Returned(mask_list)
          /\ Range(MaskNames) = {"A", "B"}
          /\ Len(mask_list) = 2

C16_Witness ==
    /\ RemappingExample
    /\ ToObjectDone
    /\ MaskNames = <<"B", "A">>

\* the grid the current ROI was rasterised on
GridInUse == IF result[1] THEN image ELSE temporary_image

\* the rasterisation of the current ROI yields no slices, no matched or
\* in-range slices, or an all-false volume
RasterisesToNothing ==
    LET volume == ConvertContourToMask(roi.contours, GridInUse, "ray_cast", "keep_as_is")
    IN volume = ReturnedNone \/ volume = Returned({})

\* C17: an ROI whose rasterisation yields no slices, no matched slices, no
\* in-range slices or an all-false volume is dropped without an exception
\* under both disconnected_segments policies, and every mask emitted has at
\* least one true voxel.
C17_EmptyResultsAreSkipped ==
    /\ \A n \in 1..Len(mask_list) : mask_list[n].image_data # {}
    /\ (result # NoResult /\ GridInUse # NoImage /\ RasterisesToNothing)
       => outcome.kind # "raised"

(***************************************************************************)
(* Further properties of the strategy decision and the synthetic grid.     *)
(***************************************************************************)
\* C24: in full synthetic mode every unique projected slice-axis value z of
\* the ROI has a slice index (z - origin_z) / spacing_z smaller than the
\* out-of-plane dimension of the synthetic grid, so that no slice of the
\* ROI falls to the out-of-range filter.
C24_GridContainsEverySlice ==
    (pc = "created" /\ ~UsePosition(result))
    => \A z \in Coordinates(GridProjected, 1) :
          z - temporary_image.image_origin[1]
            < temporary_image.image_dimension[1] * temporary_image.image_spacing[1]

\* C25: in every result computed from an image and at least one closed
\* planar contour, the second component is the outcome of the orientation
\* check and the third the outcome of the position check; both are true
\* when both checks pass and the ROI is rejected for non-adjacent slices
\* without UID confirmation.
C25_ResultReportsChecks ==
    (Decided /\ HasContours)
    => /\ result[2] = checks.orientation_correct
       /\ result[3] = checks.position_correct

(***************************************************************************)
(* Properties of check_mask called on its own.                             *)
(***************************************************************************)
\* the structure set has an ROI sequence with at least one ROI, all named
Usable ==
    /\ self.file.has_roi_sequence
    /\ Len(self.file.structure_set_roi_sequence) > 0
    /\ \A n \in 1..Len(self.file.structure_set_roi_sequence) :
          self.file.structure_set_roi_sequence[n].roi_name # None

\* C28: the boolean returned by check_mask does not depend on raise_error:
\* it is False for a structure set with no ROI sequence, an empty ROI list
\* or an ROI without a name and True otherwise, with raise_error = False as
\* with raise_error = True.
C28_ResultIgnoresRaiseError ==
    (Called("check_mask") /\ self.metadata_loaded)
    => /\ outcome.kind = "returned"
       /\ outcome.value = Usable
       /\ outcome.value = CheckMask(self, ~call.raise_error).value

(***************************************************************************)
(* Properties of the utilities.                                            *)
(***************************************************************************)
\* parts[k .. k + Len(run) - 1] is run
OccursAt(parts, run, k) ==
    /\ k \in 1..(Len(parts) - Len(run) + 1)
    /\ SubSeq(parts, k, k + Len(run) - 1) = run

\* parts without the Len(run) parts that start at k
Without(parts, run, k) ==
    SubSeq(parts, 1, k - 1) \o SubSeq(parts, k + Len(run), Len(parts))

ContainsPattern(parts) ==
    \E n \in 1..Len(parts) : parts[n] \in Range(AsList(call.pattern))

\* the parts that remain when every ignore_dir of the list, in turn, is
\* removed at its first occurrence as a contiguous run, where it has one
RECURSIVE RemainingParts(_, _)
RemainingParts(parts, ignore_dirs) ==
    IF ignore_dirs = <<>> THEN parts
    ELSE LET run == PathToParts(Head(ignore_dirs))
             at == {k \in 1..Len(parts) : OccursAt(parts, run, k)}
         IN RemainingParts(IF at = {} THEN parts
                           ELSE Without(parts, run,
                                        CHOOSE k \in at : \A m \in at : k <= m),
                           Tail(ignore_dirs))

C30_ListingsClosedUnderLookup ==
    /\ (Called("supported_mask_modalities") /\ call.modality = None)
       => /\ outcome.kind = "returned"
          /\ \A m \in Range(outcome.value) :
                SupportedMaskModalities(m) = Returned(<<m>>)
    /\ (Called("supported_image_modalities") /\ call.modality = None)
       => /\ outcome.kind = "returned"
          /\ \A m \in Range(outcome.value) :
                SupportedImageModalities(m) = Returned(<<m>>)

(***************************************************************************)
(* Further properties of to_object.                                        *)
(***************************************************************************)
\* C27: _create_image_from_contour leaves the reference image unchanged:
\* its spacing, origin, dimension and orientation are after the call what
\* they were before it, the synthetic descriptor is set on the returned copy
\* only, and nothing else in to_object changes the reference image, so that
\* a later ROI sees the original reference grid.
C27_ReferenceImageUnchanged ==
    [][/\ image' = image
       /\ (pc = "decided" /\ pc' = "created")
          => /\ temporary_image'.image_orientation
                  \in {MaskOrientation(U) :
                         U \in SvdU(OrientationPoints(CollectContours(roi.contours)))}
             /\ image'.image_spacing = image.image_spacing
             /\ image'.image_origin = image.image_origin
             /\ image'.image_dimension = image.image_dimension
             /\ image'.image_orientation = image.image_orientation]_vars

\* a second or later ROI has a synthetic grid whose descriptor differs from
\* the reference image's, after an earlier ROI of the call yielded a mask
C27_Witness ==
    /\ pc = "created"
    /\ roi_index >= 2
    /\ Len(mask_list) >= 1
    /\ temporary_image # NoImage
    /\ temporary_image.image_dimension # image.image_dimension

\* the ROI at hand has no closed planar contour with contour data
NoUsableContour == roi # NoRoi /\ CollectContours(roi.contours) = <<>>

\* C29: for an ROI without a usable closed planar contour the decision is
\* (true, true, true), the synthetic grid builder is not invoked,
\* convert_contour_to_mask returns None and no mask is emitted for the ROI;
\* and when no ROI yields a mask to_object returns None, never an empty
\* list.
C29_NoContoursNoMask ==
    /\ (NoUsableContour /\ result # NoResult)
       => /\ result = <<TRUE, TRUE, TRUE>>
          /\ pc \notin {"created", "raised"}
          /\ temporary_image = NoImage
          /\ ConvertContourToMask(roi.contours, image, "ray_cast",
                                  disconnected_segments) = ReturnedNone
          /\ outcome.kind # "raised"
          /\ \A n \in 1..Len(mask_list) :
                mask_list[n].roi_name # CurrentRoiName(self, roi.roi_number)
    /\ (ToObjectDone /\ outcome.kind = "returned") => outcome.value # <<>>
    /\ (ToObjectDone /\ mask_list = <<>>) => outcome.kind \in {"none", "raised"}

\* to_object returned None after the last ROI it went through had a POINT
\* contour only
C29_Witness ==
    /\ ToObjectDone
    /\ outcome = ReturnedNone
    /\ NoUsableContour
    /\ roi.contours # <<>>
    /\ roi_index > Len(self.file.roi_contour_sequences)
    /\ mask_list = <<>>

\* the last step appended the mask of the ROI at hand to mask_list
MaskEmitted ==
    /\ pc = "loop"
    /\ result # NoResult
    /\ Len(mask_list) > 0
    /\ mask_list[Len(mask_list)].roi_name = CurrentRoiName(self, roi.roi_number)

\* C23: every mask emitted carries the descriptor of the grid its voxel
\* array was rasterised on, the reference image's when its use was accepted
\* and the synthetic grid's when it was rejected; the dimension of the
\* descriptor is the shape of the voxel array, so that every true voxel has
\* its indices below it.
C23_MaskCarriesItsGrid ==
    MaskEmitted
    => LET mask == mask_list[Len(mask_list)]
       IN /\ mask.image_origin = GridInUse.image_origin
          /\ mask.image_spacing = GridInUse.image_spacing
          /\ mask.image_orientation = GridInUse.image_orientation
          /\ mask.image_dimension = GridInUse.image_dimension
          /\ \A v \in mask.image_data :
                \A a \in 1..3 : v[a] >= 0 /\ v[a] < mask.image_dimension[a]

\* the grids _create_image_from_contour can return for the contour sequence
\* q and the reference image alone, one for each orientation the
\* decomposition can give
SoloGrids(q) ==
    UNION {UNION {IF UsePosition(decision)
                  THEN {MixedGrid(image, mask_orientation)}
                  ELSE UNION {IF SpacingUndefined(projected) THEN {}
                              ELSE {FullSyntheticGrid(projected, image,
                                                      mask_orientation)} :
                              projected \in {Projected(contour_objects,
                                                       mask_orientation)}} :
                  mask_orientation \in
                     {MaskOrientation(U) :
                         U \in SvdU(OrientationPoints(contour_objects))},
                  decision \in {ConvertContourUsingImage(q, image)}} :
           contour_objects \in {CollectContours(q.contours)}}

\* image_data is a voxel array to_object can obtain for the contour
\* sequence q, the reference image and the policy alone
IsSoloVolume(image_data, q) ==
    IF ConvertContourUsingImage(q, image)[1]
    THEN ConvertContourToMask(q.contours, image, "ray_cast", disconnected_segments)
            = Returned(image_data)
    ELSE \E grid \in SoloGrids(q) :
            ConvertContourToMask(q.contours, grid, "ray_cast", disconnected_segments)
               = Returned(image_data)

Rasterised == RasterisedSlices(roi.contours)
Matched == MatchedSlices(Rasterised.slice_list, image)
AfterUnmatched == FilterUnmatched(Matched, Rasterised.mask_list)
AfterNegative == FilterNegative(AfterUnmatched)
AfterBeyond == FilterBeyond(AfterNegative, image)

\* the two lists have the same length and their entries, in order, are the
\* matched slice index and the rasterised mask of the same contours
Aligned(lists, matched, rasterised) ==
    /\ Len(lists.mask_list) = Len(lists.slice_list)
    /\ \E idx \in [1..Len(lists.slice_list) -> 1..Len(matched)] :
          /\ \A n, m \in 1..Len(lists.slice_list) : n < m => idx[n] < idx[m]
          /\ \A n \in 1..Len(lists.slice_list) :
                /\ matched[idx[n]].value = <<lists.slice_list[n]>>
                /\ lists.mask_list[n] = rasterised.mask_list[idx[n]]

\* the call went through the matching of the slices without an error
SlicesMatched ==
    /\ Called("convert")
    /\ image # NoImage
    /\ call.draw_method = "ray_cast"
    /\ outcome.kind # "raised"
    /\ Rasterised.slice_list # <<>>

\* C26: after each of the three filtering steps mask_list and slice_list
\* have the same length and mask_list[i] is the rasterised grid of
\* slice_list[i]; under every policy other than keep_largest slice k of the
\* returned volume is the logical or of the rasterised grids whose matched
\* index is k and lies in the grid, and no other voxel is set.
C26_FiltersKeepListsAligned ==
    SlicesMatched
    => \E rasterised \in {Rasterised} :
       \E matched \in {MatchedSlices(rasterised.slice_list, image)} :
       \E after_unmatched \in {FilterUnmatched(matched, rasterised.mask_list)} :
          /\ Aligned(after_unmatched, matched, rasterised)
          /\ \E after_negative \in {FilterNegative(after_unmatched)} :
                /\ Aligned(after_negative, matched, rasterised)
                /\ \E after_beyond \in {FilterBeyond(after_negative, image)} :
                      Aligned(after_beyond, matched, rasterised)
          /\ (outcome.kind = "returned" /\ disconnected_segments # "keep_largest")
             => /\ \A k \in 0..(image.image_dimension[1] - 1) :
                      {<<v[2], v[3]>> : v \in {w \in outcome.value : w[1] = k}}
                        = UNION {rasterised.mask_list[n] :
                                    n \in {m \in 1..Len(matched) :
                                              matched[m].value = <<k>>}}
                /\ \A v \in outcome.value :
                      v[1] \in 0..(image.image_dimension[1] - 1)

\* under a policy that is neither keep_as_is nor keep_largest a volume was
\* returned of which one slice was matched and kept and another, beyond the
\* grid, was not matched
C26_Witness ==
    /\ SlicesMatched
    /\ outcome.kind = "returned"
    /\ outcome.value # {}
    /\ disconnected_segments = "keep_all"
    /\ Len(AfterUnmatched.slice_list) < Len(Rasterised.slice_list)
    /\ Len(AfterBeyond.slice_list) >= 1

====
